---- MODULE Spec2Model ----
(***************************************************************************)
(* Model of scripts/roidetect.py (ant_tracker): the single-frame           *)
(* registration-and-extraction pipeline.                                   *)
(*                                                                         *)
(*   warp -> mask -> nodes -> centers -> contour -> vertices -> unwarp     *)
(*        -> save                                                          *)
(*                                                                         *)
(* The pure stages (nodes, centers, the per-junction body of vertices and  *)
(* its longest-edge rotation) are operators; main() is the state machine   *)
(* Spec, and each pure stage has a specification of its own that draws the *)
(* stage's inputs from bounded sets and applies the operator.              *)
(*                                                                         *)
(* Conventions.  A point is a pair <<a, b>> of integers.  Sequences are    *)
(* 1-based here and 0-based in the source; an index k of the source is     *)
(* k + 1 here.  Lengths are compared squared: np.sqrt is monotone on the   *)
(* integers that occur (all far below 2^52), so "<" and argmax on the      *)
(* square roots agree with "<" and argmax on the squares.                  *)
(***************************************************************************)
EXTENDS Integers, Sequences, FiniteSets, TLC

VARIABLES
    pc,          \* position of main(), or of the stage under test
    args,        \* parsed command line: [isFile, frame]
    videoLen,    \* number of frames the video holds
    build,       \* [raggedRaises]: does np.array raise on a ragged list
    frameRead,   \* number of the frame handed to the pipeline (0: none)
    exc,         \* the exception that ended the run ("none": none)
    failedIn,    \* the stage that raised it ("none": none)
    exitCode,    \* process exit status (-1: still running)
    ran,         \* stages entered so far, in order
    nCanon,      \* len(coord1): canonical marker count
    nDet,        \* number of markers detectMarkers found
    M,           \* homography ("none": not computed)
    frame_mask,  \* output of mask()
    graph,       \* skeleton graph of the mask
    reference,   \* canonical junction centers
    query,       \* output of nodes()
    newpoints,   \* output of centers()
    i,           \* loop index of vertices()
    index,       \* intersection pixels of the junction just processed
    centroids,   \* its k-means centers, truncated
    poly,        \* its convex hull
    roll,        \* its hull after the longest-edge rotation
    conn,        \* polygons appended so far
    polys,       \* unwarped polygons
    sink         \* what was written to the outfile: a sequence of writes

vars == <<pc, args, videoLen, build, frameRead, exc, failedIn, exitCode, ran,
          nCanon, nDet, M, frame_mask, graph, reference, query, newpoints,
          i, index, centroids, poly, roll, conn, polys, sink>>

-----------------------------------------------------------------------------
(* Bounds of the model.                                                    *)

MaxFrames == 2      \* videos of 0..MaxFrames frames, --frame 1..MaxFrames+1
MaxMarkers == 5     \* 0..MaxMarkers detected markers
MaxNodes == 4       \* skeleton graphs of up to MaxNodes nodes
MaxRef == 2         \* up to MaxRef canonical junctions (centers)
MaxPs == 2          \* up to MaxPs detected junctions (centers)
MaxPoly == 4        \* polygons of up to MaxPoly vertices (rotation)
MaxPixels == 7      \* up to MaxPixels intersection pixels per junction

(* Program constants.                                                      *)

MinDistInit == 10000    \* min_dist = 10000
MinNeighbors == 3       \* if len(conn) < 3
Radius == 40            \* cv2.circle(..., 40, ...)
NClusters == 6          \* KMeans(n_clusters=6)
RightShift == 2         \* np.roll(roll, 2, axis = 0)
MinHomographyPoints == 4  \* cv2.findHomography needs 4 correspondences

-----------------------------------------------------------------------------
(* Generic helpers.                                                        *)

Range(s) == {s[k] : k \in DOMAIN s}

SeqsUpTo(S, lo, hi) == UNION {[1..n -> S] : n \in lo..hi}

Dist2(p, q) == (p[1] - q[1]) * (p[1] - q[1]) + (p[2] - q[2]) * (p[2] - q[2])

\* A 2-element point, as opposed to an array with an extra axis.
IsPoint(x) == Len(x) = 2

\* np.roll(a, shift, axis = 0): the element at position k moves to k + shift.
NpRoll(a, shift) ==
    [m \in 1..Len(a) |-> a[((m - 1 - shift) % Len(a)) + 1]]

-----------------------------------------------------------------------------
(* vertices(), lines 169-173: the longest-edge rotation.                   *)

\* np.diff(poly, axis=0) without append: the closing edge is left out.
SegDist2NoClose(p) ==
    [k \in 1..(Len(p) - 1) |-> Dist2(p[k + 1], p[k])]

\* d = np.diff(poly, axis=0, append=poly[0:1]); segdists = sqrt((d**2).sum(1)),
\* squared: entry k is the edge from vertex k to vertex k+1, the last one the
\* closing edge back to vertex 1.
SegDist2(p) ==
    [k \in 1..Len(p) |-> Dist2(p[(k % Len(p)) + 1], p[k])]

\* The last index of a maximum.
ArgMaxLast(s) ==
    CHOOSE k \in 1..Len(s) :
        /\ \A j \in 1..Len(s) : s[j] <= s[k]
        /\ \A j \in (k + 1)..Len(s) : s[j] < s[k]

\* np.argmax: the first index of a maximum.
ArgMax(s) ==
    CHOOSE k \in 1..Len(s) :
        /\ \A j \in 1..Len(s) : s[j] <= s[k]
        /\ \A j \in 1..(k - 1) : s[j] < s[k]

\* The rotation with the closing edge forgotten.
LongestEdgeFirstNoClose(p) ==
    IF Len(p) = 1 THEN p ELSE NpRoll(p, -(ArgMax(SegDist2NoClose(p)) - 1))

\* The rotation taking the last of several longest edges.
LongestEdgeFirstLast(p) == NpRoll(p, -(ArgMaxLast(SegDist2(p)) - 1))

\* index = np.argmax(segdists); roll = np.roll(poly, -index, axis = 0)
LongestEdgeFirst(p) == NpRoll(p, -(ArgMax(SegDist2(p)) - 1))

-----------------------------------------------------------------------------
(* centers(), lines 104-125.                                               *)

\* The inner loop over j, from position j on, with the running min_dist
\* (squared) and the running index (0: None).
RECURSIVE NearestFrom(_, _, _, _, _)
NearestFrom(r, ps, j, min2, idx) ==
    IF j > Len(ps) THEN idx
    ELSE IF Dist2(r, ps[j]) < min2
         THEN NearestFrom(r, ps, j + 1, Dist2(r, ps[j]), j)
         ELSE NearestFrom(r, ps, j + 1, min2, idx)

\* index after the inner loop (0: None); min_dist starts at 10000.
NearestIndex(r, ps) == NearestFrom(r, ps, 1, MinDistInit * MinDistInit, 0)

\* ps[index]; ps[None] is ps with a new leading axis.
PsAt(ps, idx) == IF idx = 0 THEN <<ps>> ELSE ps[idx]

\* newpoints as a list, before np.array.
Centers(ref, ps) ==
    [k \in 1..Len(ref) |-> PsAt(ps, NearestIndex(ref[k], ps))]

\* A list np.array cannot stack: its elements differ in shape.
Ragged(list) ==
    \E a, b \in Range(list) : Len(a) # Len(b)

-----------------------------------------------------------------------------
(* nodes(), lines 87-102.  A graph is [n, o, edges]: nodes 0..n-1 as sknw  *)
(* numbers them, o[k+1] the centroid 'o' of node k in half pixels (a       *)
(* centroid is a mean of pixel positions), edges a set of pairs <<s, e>>   *)
(* with s <= e (networkx Graph: undirected, no parallel edges; <<s, s>> is *)
(* a self-loop).                                                           *)

Edge(a, b) == IF a <= b THEN <<a, b>> ELSE <<b, a>>

\* graph.neighbors(k)
Neighbors(g, k) == {j \in 0..(g.n - 1) : Edge(k, j) \in g.edges}

\* A tip test that looks at the graph being pruned instead of the original.
IsTipMut(g, cp, k) ==
    Cardinality({j \in cp : Edge(k, j) \in g.edges}) < MinNeighbors

\* conn = [n for n in graph.neighbors(i)]; len(conn) < 3
IsTip(g, cp, k) == Cardinality(Neighbors(g, k)) < MinNeighbors

\* The loop of lines 95-98 from position k on; cp is the node set of copy.
RECURSIVE PruneFrom(_, _, _)
PruneFrom(g, cp, k) ==
    IF k >= g.n THEN cp
    ELSE PruneFrom(g, IF IsTip(g, cp, k) THEN cp \ {k} ELSE cp, k + 1)

\* copy.nodes() after the loop.
NewNodes(g) == PruneFrom(g, 0..(g.n - 1), 0)

\* .astype(int) on a non-negative half-pixel coordinate.
AsInt(h) == <<h[1] \div 2, h[2] \div 2>>

\* The nodes of a set in ascending order (networkx keeps insertion order).
RECURSIVE SortedSeq(_)
SortedSeq(S) ==
    IF S = {} THEN <<>>
    ELSE LET m == CHOOSE x \in S : \A y \in S : x <= y
         IN  <<m>> \o SortedSeq(S \ {m})

\* new_node_centers
Nodes(g) ==
    LET keep == SortedSeq(NewNodes(g))
    IN  [k \in 1..Len(keep) |-> AsInt(g.o[keep[k] + 1])]

-----------------------------------------------------------------------------
(* vertices(), lines 154-178: one junction.  Pixels and k-means centers    *)
(* are (x, y) pairs, as cv2.findNonZero returns them.                      *)

\* 0:42, 1:122, ... (main, line 214)
Dict ==
    (0 :> 42) @@ (1 :> 122) @@ (2 :> 121) @@ (3 :> 41) @@ (4 :> 12) @@
    (5 :> 40) @@ (6 :> 112) @@ (7 :> 8) @@ (8 :> 11) @@ (9 :> 6) @@
    (10 :> 10) @@ (11 :> 4) @@ (12 :> 111) @@ (13 :> 2) @@ (14 :> 60) @@
    (15 :> 0) @@ (16 :> 1) @@ (17 :> 3) @@ (18 :> 20) @@ (19 :> 7) @@
    (20 :> 5) @@ (21 :> 211) @@ (22 :> 31) @@ (23 :> 21) @@ (24 :> 22) @@
    (25 :> 30) @@ (26 :> 50) @@ (27 :> 212) @@ (28 :> 222) @@ (29 :> 221) @@
    (30 :> 32)

\* The right junctions of line 176.
RightLabels == {5, 3, 0, 2, 6, 50, 32, 20, 212, 211, 60, 41, 42, 121, 122, 111, 112}

\* A pixel offset (dx, dy) whose center lies within half a pixel of the circle
\* of the given radius: the 2-pixel-thick circle of line 157 covers it.
OnCircle(off) ==
    /\ off[1] * off[1] + off[2] * off[2] >= Radius * Radius - Radius
    /\ off[1] * off[1] + off[2] * off[2] <= Radius * Radius + Radius

\* The offsets the model draws intersection pixels from: six in convex
\* position with edges of six different lengths, and three neighbouring
\* pixels where a contour crosses the circle on the diagonal.
PoolOffsets ==
    {<<40, 0>>, <<24, 32>>, <<-12, 38>>, <<-40, 3>>, <<-28, -28>>, <<13, -38>>,
     <<28, 28>>, <<29, 28>>, <<28, 29>>}

\* The pixels of the pool around the junction point c = (row, col); the circle
\* is centered at (x, y) = (c[2], c[1]).
PixelPool(c) == {<<c[2] + off[1], c[1] + off[2]>> : off \in PoolOffsets}

RECURSIVE SumX(_)
SumX(S) == IF S = {} THEN 0
           ELSE LET p == CHOOSE q \in S : TRUE IN p[1] + SumX(S \ {p})

RECURSIVE SumY(_)
SumY(S) == IF S = {} THEN 0
           ELSE LET p == CHOOSE q \in S : TRUE IN p[2] + SumY(S \ {p})

\* The partitions of S into exactly k non-empty blocks.
RECURSIVE Partitions(_, _)
Partitions(S, k) ==
    IF S = {} THEN (IF k = 0 THEN {{}} ELSE {})
    ELSE IF k = 0 THEN {}
    ELSE LET x == CHOOSE y \in S : TRUE
             R == S \ {x}
         IN  {P \cup {{x}} : P \in Partitions(R, k - 1)}
             \cup UNION {{(P \ {B}) \cup {B \cup {x}} : B \in P} :
                            P \in Partitions(R, k)}

\* Is p at least as near to the mean of block A as to the mean of block B
\* (both distances scaled by (|A| |B|)^2 to stay in the integers).
NearerOrEqual(p, A, B) ==
    LET nA == Cardinality(A)
        nB == Cardinality(B)
        dA == (nA * p[1] - SumX(A)) * (nA * p[1] - SumX(A))
              + (nA * p[2] - SumY(A)) * (nA * p[2] - SumY(A))
        dB == (nB * p[1] - SumX(B)) * (nB * p[1] - SumX(B))
              + (nB * p[2] - SumY(B)) * (nB * p[2] - SumY(B))
    IN  dA * nB * nB <= dB * nA * nA

\* A partition Lloyd's iteration stops at: every sample is in the block of a
\* nearest center.
Stable(P) ==
    \A A \in P : \A p \in A : \A B \in P : NearerOrEqual(p, A, B)

\* The clusterings KMeans(n_clusters=6).fit(index) can return: the
\* initialisation is random, so any stable partition into 6 clusters.
KMeansFits(pix) == {P \in Partitions(pix, NClusters) : Stable(P)}

\* np.array(kmeans.cluster_centers_).astype(int), as the set of distinct
\* centers (coordinates are non-negative: truncation is the floor).
ClusterCenters(P) ==
    {<<SumX(A) \div Cardinality(A), SumY(A) \div Cardinality(A)>> : A \in P}

\* (b - a) x (c - a)
Cross(a, b, c) ==
    (b[1] - a[1]) * (c[2] - a[2]) - (b[2] - a[2]) * (c[1] - a[1])

OnSegment(p, a, b) ==
    /\ Cross(a, b, p) = 0
    /\ (p[1] - a[1]) * (p[1] - b[1]) + (p[2] - a[2]) * (p[2] - b[2]) <= 0

InTriangle(p, a, b, c) ==
    /\ Cross(a, b, c) # 0
    /\ \/ Cross(a, b, p) >= 0 /\ Cross(b, c, p) >= 0 /\ Cross(c, a, p) >= 0
       \/ Cross(a, b, p) <= 0 /\ Cross(b, c, p) <= 0 /\ Cross(c, a, p) <= 0

\* p lies in the convex hull of Q.
InConv(p, Q) ==
    \/ \E a, b \in Q : OnSegment(p, a, b)
    \/ \E a, b, c \in Q : InTriangle(p, a, b, c)

\* The vertices of the convex hull of C: the points not in the hull of the
\* others (cv2.convexHull drops interior and collinear points).
HullVertices(C) == {p \in C : ~InConv(p, C \ {p})}

\* The hull from a given vertex on, counter-clockwise (x right, y up), which
\* is the orientation of cv2.convexHull with clockwise=False.
RECURSIVE HullFrom(_, _, _)
HullFrom(V, p, left) ==
    IF left = {} THEN <<p>>
    ELSE LET q == CHOOSE n \in left : \A r \in left \ {n} : Cross(p, n, r) > 0
         IN  <<p>> \o HullFrom(V, q, left \ {q})

\* poly: cv2.convexHull(centers); the vertex the hull starts at is the
\* library's choice.
Hulls(C) ==
    LET V == HullVertices(C) IN {HullFrom(V, s, V \ {s}) : s \in V}

\* Lines 176-177: the chirality correction of junction k (0-based).
Chirality(k, r) ==
    IF Dict[k] \in RightLabels THEN NpRoll(r, RightShift) ELSE r

\* The exception lines 159-163 raise on the intersection pixels pix, "none"
\* if they raise none: findNonZero returns None when there is no pixel and
\* len() of np.array(None) is a TypeError; KMeans raises ValueError when there
\* are fewer samples than clusters.  The pixels found are distinct positions.
ClusterError(pix) ==
    IF pix = {} THEN "TypeError"
    ELSE IF Cardinality(pix) < NClusters THEN "ValueError"
    ELSE "none"

\* The same junction body with a clusterer that makes do with fewer samples
\* than clusters instead of raising.
VertexOutcomesLenient(k, pix) ==
    IF pix = {}
    THEN {[exc |-> "TypeError", centers |-> {}, poly |-> <<>>, roll |-> <<>>,
           out |-> <<>>]}
    ELSE LET nc == IF Cardinality(pix) < NClusters THEN Cardinality(pix)
                   ELSE NClusters
         IN  UNION {{[exc |-> "none", centers |-> ClusterCenters(P), poly |-> h,
                      roll |-> LongestEdgeFirst(h),
                      out |-> Chirality(k, LongestEdgeFirst(h))] :
                        h \in Hulls(ClusterCenters(P))} :
                    P \in {Q \in Partitions(pix, nc) : Stable(Q)}}

\* What the body of the loop of vertices() can do for junction k (0-based)
\* whose circle meets the contour in the pixels pix: raise exc, or append out
\* to conn.
VertexOutcomes(k, pix) ==
    IF ClusterError(pix) # "none"
    THEN {[exc |-> ClusterError(pix), centers |-> {}, poly |-> <<>>,
           roll |-> <<>>, out |-> <<>>]}
    ELSE UNION {{[exc |-> "none", centers |-> ClusterCenters(P), poly |-> h,
                  roll |-> LongestEdgeFirst(h),
                  out |-> Chirality(k, LongestEdgeFirst(h))] :
                    h \in Hulls(ClusterCenters(P))} :
                P \in KMeansFits(pix)}

-----------------------------------------------------------------------------
(* Values of the variables a specification does not use.                   *)

EmptyGraph == [n |-> 0, o |-> <<>>, edges |-> {}]

NoMask == [made |-> FALSE, black |-> FALSE, graph |-> EmptyGraph]

IdleCli ==
    /\ args = [isFile |-> TRUE, frame |-> 1]
    /\ videoLen = 1
    /\ frameRead = 0
    /\ exitCode = -1

IdleRun == exc = "none" /\ failedIn = "none" /\ ran = <<>>

IdleWarp == nCanon = 0 /\ nDet = 0 /\ M = "none"

IdleMask == frame_mask = NoMask /\ graph = EmptyGraph

IdleCenters == reference = <<>> /\ query = <<>> /\ newpoints = <<>>

IdleVertex == i = 0 /\ index = {} /\ centroids = {} /\ poly = <<>> /\ roll = <<>>

IdleOut == conn = <<>> /\ polys = <<>> /\ sink = <<>>

cliVars == <<args, videoLen, frameRead, exitCode>>
warpVars == <<nCanon, nDet, M>>
maskVars == <<frame_mask, graph>>
vertexVars == <<i, index, centroids, poly, roll>>
outVars == <<conn, polys, sink>>

-----------------------------------------------------------------------------
(* SpecRoll: the longest-edge rotation on every vertex sequence of up to   *)
(* MaxPoly points of a 3 x 3 grid, applied once and then once more.        *)

GridPoints == {<<a, b>> : a \in 0..2, b \in 0..2}

InitRoll ==
    /\ pc = "poly"
    /\ poly \in SeqsUpTo(GridPoints, 1, MaxPoly)
    /\ roll = <<>>
    /\ conn = <<>>
    /\ i = 0 /\ index = {} /\ centroids = {}
    /\ polys = <<>> /\ sink = <<>>
    /\ build = [raggedRaises |-> TRUE]
    /\ IdleCli /\ IdleRun /\ IdleWarp /\ IdleMask /\ IdleCenters

\* The rotation step on poly.
RollOnce ==
    /\ pc = "poly"
    /\ roll' = LongestEdgeFirst(poly)
    /\ pc' = "rolled"
    /\ UNCHANGED <<build, cliVars, exc, failedIn, ran, warpVars, maskVars,
                   reference, query, newpoints, i, index, centroids, poly,
                   conn, polys, sink>>

\* The rotation step on its own result; conn keeps the first result.
RollAgain ==
    /\ pc = "rolled"
    /\ conn' = <<roll>>
    /\ roll' = LongestEdgeFirst(roll)
    /\ pc' = "rolled2"
    /\ UNCHANGED <<build, cliVars, exc, failedIn, ran, warpVars, maskVars,
                   reference, query, newpoints, i, index, centroids, poly,
                   polys, sink>>

NextRoll == RollOnce \/ RollAgain

SpecRoll == InitRoll /\ [][NextRoll]_vars

-----------------------------------------------------------------------------
(* SpecCenters: centers() on every reference of 1..MaxRef points and every *)
(* detected set of 0..MaxPs points.                                        *)

CenterPoints == {<<a, b>> : a \in {0, 4, 10000}, b \in {0, 3, 10000}}

InitCenters ==
    /\ pc = "centers_in"
    /\ reference \in SeqsUpTo(CenterPoints, 1, MaxRef)
    /\ query \in SeqsUpTo(CenterPoints, 0, MaxPs)
    /\ newpoints = <<>>
    /\ build \in [raggedRaises : BOOLEAN]
    /\ IdleCli /\ IdleRun /\ IdleWarp /\ IdleMask /\ IdleVertex /\ IdleOut

\* newpoints = centers(reference, query); np.array(newpoints) of line 124
\* raises ValueError on a ragged list where the build's numpy does.
ApplyCenters ==
    /\ pc = "centers_in"
    /\ newpoints' = Centers(reference, query)
    /\ IF build.raggedRaises /\ Ragged(Centers(reference, query))
       THEN exc' = "ValueError" /\ failedIn' = "centers" /\ pc' = "failed"
       ELSE exc' = exc /\ failedIn' = failedIn /\ pc' = "centers_out"
    /\ UNCHANGED <<build, cliVars, ran, warpVars, maskVars, reference, query,
                   vertexVars, outVars>>

NextCenters == ApplyCenters

SpecCenters == InitCenters /\ [][NextCenters]_vars

-----------------------------------------------------------------------------
(* SpecNodes: nodes() on every skeleton graph of up to MaxNodes nodes.     *)

AllEdges(n) == {e \in (0..(n - 1)) \X (0..(n - 1)) : e[1] <= e[2]}

\* Node centroids in half pixels; h = 1 puts them off the pixel grid.
Layout(n, h) == [k \in 1..n |-> <<20 * k + h, 14 * k + 6 + h * (k % 2)>>]

InitNodes ==
    /\ pc = "nodes_in"
    /\ \E n \in 0..MaxNodes, h \in 0..1 :
          \E E \in SUBSET AllEdges(n) :
             graph = [n |-> n, o |-> Layout(n, h), edges |-> E]
    /\ frame_mask = NoMask
    /\ build = [raggedRaises |-> TRUE]
    /\ IdleCli /\ IdleRun /\ IdleWarp /\ IdleCenters /\ IdleVertex /\ IdleOut

\* query = nodes(frame_mask), from the graph on.
ApplyNodes ==
    /\ pc = "nodes_in"
    /\ query' = Nodes(graph)
    /\ pc' = "nodes_out"
    /\ UNCHANGED <<build, cliVars, exc, failedIn, ran, warpVars, maskVars,
                   reference, newpoints, vertexVars, outVars>>

NextNodes == ApplyNodes

SpecNodes == InitNodes /\ [][NextNodes]_vars

-----------------------------------------------------------------------------
(* SpecVertex: the body of the loop of vertices() for one junction, on     *)
(* every set of up to MaxPixels intersection pixels of the pool.           *)

JunctionPoint == <<100, 100>>

PixelSets(c) == {S \in SUBSET PixelPool(c) : Cardinality(S) <= MaxPixels}

InitVertex ==
    /\ pc = "vertex_in"
    /\ i \in DOMAIN Dict
    /\ newpoints = <<JunctionPoint>>
    /\ index \in PixelSets(JunctionPoint)
    /\ centroids = {} /\ poly = <<>> /\ roll = <<>>
    /\ reference = <<>> /\ query = <<>>
    /\ build = [raggedRaises |-> TRUE]
    /\ IdleCli /\ IdleRun /\ IdleWarp /\ IdleMask /\ IdleOut

\* One pass of the loop body: an exception leaves vertices(), or a polygon is
\* appended to conn.
ExtractVertex ==
    /\ pc = "vertex_in"
    /\ \E o \in VertexOutcomes(i, index) :
          /\ centroids' = o.centers
          /\ poly' = o.poly
          /\ roll' = o.roll
          /\ IF o.exc # "none"
             THEN /\ exc' = o.exc /\ failedIn' = "vertices" /\ pc' = "failed"
                  /\ conn' = conn
             ELSE /\ exc' = exc /\ failedIn' = failedIn /\ pc' = "vertex_out"
                  /\ conn' = Append(conn, o.out)
    /\ UNCHANGED <<build, cliVars, ran, warpVars, maskVars, reference, query,
                   newpoints, i, index, polys, sink>>

NextVertex == ExtractVertex

SpecVertex == InitVertex /\ [][NextVertex]_vars

-----------------------------------------------------------------------------
(* Spec: main(), lines 201-247.  What the frame shows (the markers found,  *)
(* the mask, the pixels each circle meets) is input, drawn at the stage    *)
(* that reads it.  No stage is wrapped in try/except: an exception ends    *)
(* the run with exit status 1, arg_parser.error with exit status 2.        *)

\* The frame lines 205-206 hand on: video.read() is called once, whatever
\* --frame says, and returns the first frame (0: ret is False, frame is None).
FrameOf(a, len) == IF len >= 1 THEN 1 ELSE 0

\* An exception that is swallowed.
Swallowed(e) == FALSE

\* Does exception e leave the stage that raised it and end the run: there is
\* no handler anywhere in the file.
Propagates(e) == e # "none"

\* warp() without the solver's demands on the correspondences.
WarpErrorLax(d, c, h) ==
    IF d = 0 THEN "TypeError" ELSE IF h = "None" THEN "cv2.error" ELSE "none"

\* The exception warp() raises for d detected markers, c canonical ones and
\* the solver's answer h: "TypeError" when ids is None (line 45, no marker),
\* "cv2.error" when findHomography rejects the correspondences (line 56:
\* the two point lists differ in length, or hold fewer than 4 points) or
\* returns None, which warpPerspective rejects (line 57).
WarpError(d, c, h) ==
    IF d = 0 THEN "TypeError"
    ELSE IF d # c \/ d < MinHomographyPoints THEN "cv2.error"
    ELSE IF h = "None" THEN "cv2.error"
    ELSE "none"

\* Skeleton graphs of the masks of Spec: a Y (one junction, off the pixel
\* grid), an H (two junctions), a bar (no junction).
YGraph ==
    [n |-> 4, o |-> <<<<200, 201>>, <<120, 200>>, <<260, 120>>, <<260, 280>>>>,
     edges |-> {<<0, 1>>, <<0, 2>>, <<0, 3>>}]

HGraph ==
    [n |-> 6,
     o |-> <<<<120, 200>>, <<200, 200>>, <<200, 600>>, <<280, 200>>,
             <<120, 600>>, <<280, 600>>>>,
     edges |-> {<<0, 1>>, <<1, 3>>, <<1, 2>>, <<2, 4>>, <<2, 5>>}]

BarGraph == [n |-> 2, o |-> <<<<200, 100>>, <<200, 500>>>>, edges |-> {<<0, 1>>}]

Masks ==
    {[made |-> TRUE, black |-> TRUE, graph |-> EmptyGraph],
     [made |-> TRUE, black |-> FALSE, graph |-> YGraph],
     [made |-> TRUE, black |-> FALSE, graph |-> HGraph],
     [made |-> TRUE, black |-> FALSE, graph |-> BarGraph]}

\* Canonical junction centers (row, col) of templates/center_coordinates.txt.
RefList == <<<<100, 100>>, <<100, 300>>, <<300, 200>>, <<300, 400>>>>

References == {SubSeq(RefList, 1, n) : n \in 1..MaxRef}

\* The pixel sets Spec offers a circle: none, five, six in convex position,
\* six of which one lies between its two neighbours.
MainOffsets ==
    {{},
     {<<40, 0>>, <<24, 32>>, <<-12, 38>>, <<-40, 3>>, <<-28, -28>>},
     {<<40, 0>>, <<24, 32>>, <<-12, 38>>, <<-40, 3>>, <<-28, -28>>, <<13, -38>>},
     {<<28, 28>>, <<29, 28>>, <<28, 29>>, <<-12, 38>>, <<-40, 3>>, <<-28, -28>>}}

MainPixelSets(c) ==
    {{<<c[2] + off[1], c[1] + off[2]>> : off \in S} : S \in MainOffsets}

\* cv2.perspectiveTransform(pts2, np.linalg.pinv(M)) on one vertex, kept
\* symbolic.
UnwarpPoint(m, v) == [pinv |-> m, of |-> v]

Fail(stage, e) ==
    /\ pc' = "failed"
    /\ exc' = e
    /\ failedIn' = stage
    /\ exitCode' = 1

Init ==
    /\ pc = "start"
    /\ args \in [isFile : BOOLEAN, frame : 1..(MaxFrames + 1)]
    /\ videoLen \in 0..MaxFrames
    /\ build \in [raggedRaises : BOOLEAN]
    /\ frameRead = 0
    /\ exitCode = -1
    /\ IdleRun /\ IdleWarp /\ IdleMask /\ IdleCenters /\ IdleVertex /\ IdleOut

\* Lines 201-209: the path check, the single read, the grayscale conversion
\* (which raises on the None frame of a failed read, before ret is looked at).
ReadFrame ==
    /\ pc = "start"
    /\ IF ~args.isFile
       THEN /\ pc' = "failed" /\ exc' = "SystemExit" /\ failedIn' = "main"
            /\ exitCode' = 2
            /\ frameRead' = frameRead
       ELSE IF FrameOf(args, videoLen) = 0
       THEN Fail("main", "cv2.error") /\ frameRead' = frameRead
       ELSE /\ frameRead' = FrameOf(args, videoLen)
            /\ pc' = "load"
            /\ UNCHANGED <<exc, failedIn, exitCode>>
    /\ UNCHANGED <<args, videoLen, build, ran, warpVars, maskVars, reference,
                   query, newpoints, vertexVars, outVars>>

\* Lines 212-213: the two template files.  The marker template holds at
\* least the 4 markers a homography takes.
LoadTemplates ==
    /\ pc = "load"
    /\ \E c \in MinHomographyPoints..MaxMarkers, ref \in References :
          /\ nCanon' = c
          /\ reference' = ref
    /\ pc' = "warp"
    /\ UNCHANGED <<args, videoLen, build, frameRead, exc, failedIn, exitCode,
                   ran, nDet, M, maskVars, query, newpoints, vertexVars,
                   outVars>>

\* Line 216: M, result = warp(gray, coord1).
Warp ==
    /\ pc = "warp"
    /\ ran' = Append(ran, "warp")
    /\ \E d \in 0..MaxMarkers, h \in {"H", "Hsingular", "None"} :
          /\ nDet' = d
          /\ IF Propagates(WarpError(d, nCanon, h))
             THEN Fail("warp", WarpError(d, nCanon, h)) /\ M' = M
             ELSE /\ M' = h
                  /\ pc' = "mask"
                  /\ UNCHANGED <<exc, failedIn, exitCode>>
    /\ UNCHANGED <<args, videoLen, build, frameRead, nCanon, maskVars,
                   reference, query, newpoints, vertexVars, outVars>>

\* Line 217: frame_mask = mask(result); thresholding and morphology raise
\* nothing.
Mask ==
    /\ pc = "mask"
    /\ ran' = Append(ran, "mask")
    /\ frame_mask' \in Masks
    /\ pc' = "nodes"
    /\ UNCHANGED <<args, videoLen, build, frameRead, exc, failedIn, exitCode,
                   warpVars, graph, reference, query, newpoints, vertexVars,
                   outVars>>

\* Line 218: query = nodes(frame_mask).
NodesStage ==
    /\ pc = "nodes"
    /\ ran' = Append(ran, "nodes")
    /\ graph' = frame_mask.graph
    /\ query' = Nodes(frame_mask.graph)
    /\ pc' = "centers"
    /\ UNCHANGED <<args, videoLen, build, frameRead, exc, failedIn, exitCode,
                   warpVars, frame_mask, reference, newpoints, vertexVars,
                   outVars>>

\* Line 219: newpoints = centers(reference, query).
CentersStage ==
    /\ pc = "centers"
    /\ ran' = Append(ran, "centers")
    /\ newpoints' = Centers(reference, query)
    /\ IF build.raggedRaises /\ Ragged(Centers(reference, query))
       THEN Fail("centers", "ValueError")
       ELSE pc' = "contour" /\ UNCHANGED <<exc, failedIn, exitCode>>
    /\ UNCHANGED <<args, videoLen, build, frameRead, warpVars, maskVars,
                   reference, query, vertexVars, outVars>>

\* Line 229: cont = contour(frame_mask); max() of no contour is a ValueError.
ContourStage ==
    /\ pc = "contour"
    /\ ran' = Append(ran, "contour")
    /\ IF frame_mask.black
       THEN Fail("contour", "ValueError") /\ UNCHANGED <<i, conn>>
       ELSE /\ pc' = "vertices"
            /\ i' = 0
            /\ conn' = <<>>
            /\ UNCHANGED <<exc, failedIn, exitCode>>
    /\ UNCHANGED <<args, videoLen, build, frameRead, warpVars, maskVars,
                   reference, query, newpoints, index, centroids, poly, roll,
                   polys, sink>>

\* Line 230, one pass of the loop of vertices(): newpoints[i, 1] is an
\* IndexError unless newpoints is an n x 2 array.  The locals of the pass
\* (index, centers, poly, roll) are not kept: SpecVertex looks at them.
VerticesStep ==
    /\ pc = "vertices"
    /\ i < Len(newpoints)
    /\ ran' = IF i = 0 THEN Append(ran, "vertices") ELSE ran
    /\ IF \E k \in 1..Len(newpoints) : ~IsPoint(newpoints[k])
       THEN Fail("vertices", "IndexError") /\ UNCHANGED <<i, conn>>
       ELSE \E pix \in MainPixelSets(newpoints[i + 1]) :
            \E o \in {[exc |-> v.exc, out |-> v.out] : v \in VertexOutcomes(i, pix)} :
               IF Propagates(o.exc)
               THEN Fail("vertices", o.exc) /\ UNCHANGED <<i, conn>>
               ELSE /\ i' = i + 1
                    /\ conn' = IF o.exc = "none" THEN Append(conn, o.out)
                               ELSE conn
                    /\ UNCHANGED <<pc, exc, failedIn, exitCode>>
    /\ UNCHANGED <<args, videoLen, build, frameRead, warpVars, maskVars,
                   reference, query, newpoints, index, centroids, poly, roll,
                   polys, sink>>

\* Lines 179-180: conn = np.array(conn); return conn.
VerticesReturn ==
    /\ pc = "vertices"
    /\ i = Len(newpoints)
    /\ IF build.raggedRaises /\ Ragged(conn)
       THEN Fail("vertices", "ValueError")
       ELSE pc' = "unwarp" /\ UNCHANGED <<exc, failedIn, exitCode>>
    /\ UNCHANGED <<args, videoLen, build, frameRead, ran, warpVars, maskVars,
                   reference, query, newpoints, vertexVars, outVars>>

\* Lines 233-234: np.array(verts, np.float32) is a ValueError on polygons of
\* different lengths; otherwise every vertex goes through pinv(M).
Unwarp ==
    /\ pc = "unwarp"
    /\ ran' = Append(ran, "unwarp")
    /\ IF Ragged(conn)
       THEN Fail("unwarp", "ValueError") /\ polys' = polys
       ELSE /\ polys' = [k \in 1..Len(conn) |->
                           [m \in 1..Len(conn[k]) |-> UnwarpPoint(M, conn[k][m])]]
            /\ pc' = "save"
            /\ UNCHANGED <<exc, failedIn, exitCode>>
    /\ UNCHANGED <<args, videoLen, build, frameRead, warpVars, maskVars,
                   reference, query, newpoints, vertexVars, conn, sink>>

\* Lines 246-247: one call of bbox.save_rois with all the polygons; the file
\* cannot be opened, or it is written.
Save ==
    /\ pc = "save"
    /\ ran' = Append(ran, "save")
    /\ \E ok \in BOOLEAN :
          IF ok
          THEN /\ sink' = Append(sink, polys)
               /\ pc' = "done"
               /\ exitCode' = 0
               /\ UNCHANGED <<exc, failedIn>>
          ELSE Fail("save", "OSError") /\ sink' = sink
    /\ UNCHANGED <<args, videoLen, build, frameRead, warpVars, maskVars,
                   reference, query, newpoints, vertexVars, conn, polys>>

Next ==
    \/ ReadFrame
    \/ LoadTemplates
    \/ Warp
    \/ Mask
    \/ NodesStage
    \/ CentersStage
    \/ ContourStage
    \/ VerticesStep
    \/ VerticesReturn
    \/ Unwarp
    \/ Save

Spec == Init /\ [][Next]_vars

-----------------------------------------------------------------------------
(* The claims.                                                             *)

\* C1 (centers): once centers() has run, it has returned, and for every
\* canonical junction k the element k of newpoints is a detected point whose
\* distance to reference[k] is the minimum over all detected points.
CentersNearest ==
    pc # "centers_in" =>
        /\ pc = "centers_out"
        /\ Len(newpoints) = Len(reference)
        /\ \A k \in 1..Len(reference) :
              /\ IsPoint(newpoints[k])
              /\ \E j \in 1..Len(query) : newpoints[k] = query[j]
              /\ \A j \in 1..Len(query) :
                    Dist2(reference[k], newpoints[k])
                        <= Dist2(reference[k], query[j])

\* C2 (vertices): every polygon emitted for a junction has exactly 6 vertices.
VertexSixVertices ==
    pc = "vertex_out" => Len(conn[1]) = 6

WarpNeedsFourMarkers ==
    /\ ("warp" \in Range(ran) /\ nDet < 4) =>
          /\ pc = "failed"
          /\ failedIn = "warp"
          /\ exc \in {"TypeError", "cv2.error"}
          /\ M = "none"
          /\ "mask" \notin Range(ran)
    /\ (pc = "mask" \/ "mask" \in Range(ran)) => (nDet >= 4 /\ M # "none")

\* C4's case: three markers detected of the four canonical ones, and warp()
\* has failed.
WarpThreeMarkersWitness ==
    /\ pc = "failed"
    /\ failedIn = "warp"
    /\ nDet = 3
    /\ nCanon = 4

\* C5 (nodes): on a completely black mask, whose skeleton graph has no node,
\* nodes() fails (the TopologyError of the design) and centers() is never run
\* on the empty set of detected points.
BlackMaskFailsInNodes ==
    (frame_mask.black /\ "nodes" \in Range(ran)) =>
        /\ pc = "failed"
        /\ failedIn = "nodes"
        /\ "centers" \notin Range(ran)

\* C6 (nodes): the junctions returned are exactly the nodes with 3 or more
\* neighbours in the original graph, each once, by its integer coordinates.
NodesAreDegreeThree ==
    pc = "nodes_out" =>
        LET junctions == {k \in 0..(graph.n - 1) :
                             Cardinality({j \in 0..(graph.n - 1) :
                                 <<k, j>> \in graph.edges
                                     \/ <<j, k>> \in graph.edges}) >= 3}
            order == SortedSeq(junctions)
        IN  /\ Len(query) = Cardinality(junctions)
            /\ \A m \in 1..Len(query) :
                  query[m] = <<graph.o[order[m] + 1][1] \div 2,
                               graph.o[order[m] + 1][2] \div 2>>

\* C6's case: a tip with a lower number than a junction has been pruned, a
\* junction with a self-loop and a junction off the pixel grid are kept.
NodesWitness ==
    /\ pc = "nodes_out"
    /\ graph.n = 4
    /\ Len(query) = 2
    /\ Cardinality(Neighbors(graph, 0)) < 3
    /\ <<3, 3>> \in graph.edges
    /\ Cardinality(Neighbors(graph, 3)) = 3
    /\ graph.o[4][1] % 2 = 1

\* C7 (vertices): the longest-edge rotation is idempotent: applied to its own
\* result it returns that result, ties for the longest edge included.
RollIdempotent ==
    pc = "rolled2" => roll = conn[1]

\* C7's case: two edges tie for the longest, the first application has
\* rotated the polygon, and the second application has run.
RollIdempotentWitness ==
    /\ pc = "rolled2"
    /\ conn[1] # poly
    /\ \E a, b \in 1..Len(poly) :
          /\ a # b
          /\ SegDist2(poly)[a] = SegDist2(poly)[b]
          /\ \A k \in 1..Len(poly) : SegDist2(poly)[k] <= SegDist2(poly)[a]

\* C9 (vertices): after the longest-edge step the sequence is a cyclic
\* rotation of the hull sequence whose edge from the first to the second
\* vertex is a longest edge of the polygon, the closing edge included.
RollLongestFirst ==
    pc = "rolled" =>
        LET n == Len(poly) IN
        /\ Len(roll) = n
        /\ \E s \in 0..(n - 1) :
              \A m \in 1..n : roll[m] = poly[((m - 1 + s) % n) + 1]
        /\ \A k \in 1..n :
              Dist2(roll[1], roll[(1 % n) + 1])
                  >= Dist2(roll[k], roll[(k % n) + 1])

\* C9's case: the closing edge of the input is strictly the longest, so the
\* last vertex has become the first.
RollClosingEdgeWitness ==
    /\ pc = "rolled"
    /\ Len(poly) >= 3
    /\ \A k \in 1..(Len(poly) - 1) :
          Dist2(poly[k], poly[k + 1]) < Dist2(poly[Len(poly)], poly[1])
    /\ roll[1] = poly[Len(poly)]

\* C8 (main): once the frame has been read, a request beyond the video's
\* length, or a path that is no file, has ended the run with a non-zero exit
\* status; otherwise the frame handed to the pipeline is frame N.
FrameSelected ==
    pc # "start" =>
        IF ~args.isFile \/ args.frame > videoLen
        THEN pc = "failed" /\ failedIn = "main" /\ exitCode \notin {-1, 0}
        ELSE frameRead = args.frame

StageOrder ==
    <<"warp", "mask", "nodes", "centers", "contour", "vertices", "unwarp", "save">>

\* C10 (main): the stages are entered in the order warp, mask, nodes,
\* centers, (contour,) vertices, unwarp, save; the sink is written at most
\* once, only by a run that went through every stage and holds one polygon
\* per canonical junction; a failed run has written nothing.
AbortOnError ==
    /\ Len(ran) <= Len(StageOrder)
    /\ ran = SubSeq(StageOrder, 1, Len(ran))
    /\ Len(sink) <= 1
    /\ sink # <<>> =>
          /\ pc = "done"
          /\ exc = "none"
          /\ ran = StageOrder
          /\ Len(conn) = Len(reference)
          /\ Len(sink[1]) = Len(reference)
    /\ pc = "failed" => (sink = <<>> /\ exc # "none" /\ exitCode > 0)
    /\ exc # "none" => pc = "failed"

\* C10's case: the polygon of the first junction was built, the second
\* junction failed, and nothing was written.
AbortAfterFirstJunctionWitness ==
    /\ pc = "failed"
    /\ failedIn = "vertices"
    /\ Len(conn) = 1
    /\ i = 1
    /\ sink = <<>>

====
